---- MODULE Spec2Model ----
(***************************************************************************)
(* A model of hooks/forbid_secrets.py: the Secret document classifier      *)
(* (check_secret, validate_sops_metadata), the template line scanner       *)
(* (check_template_content), the freeform document extractor               *)
(* (extract_yaml_documents) and the driver (main).                         *)
(*                                                                         *)
(* Python values are tagged records: NULL is None, Str(s) a str, a mapping *)
(* has t = "map", a list t = "seq".  A key that is not in a dict has the   *)
(* value ABSENT, so `"k" in d` is d.k.t # "absent" and d.get("k") is None  *)
(* exactly when d.k is ABSENT or NULL.  Strings whose characters the code  *)
(* looks at (paths, apiVersion, file text) are sequences of tokens.        *)
(***************************************************************************)
EXTENDS Integers, Sequences, FiniteSets, TLC

VARIABLES
    pc,         \* where the modelled call or the driver stands
    doc,        \* check_secret: the document classified
    result,     \* check_secret: the value returned
    content,    \* the text scanned; in main, the text read from the file
    verdict,    \* check_template_content: the value returned
    exit_code,  \* main: the aggregated failure flag
    nargs,      \* main: the number of file arguments
    argi,       \* main: how many arguments the loop has taken
    filename,   \* main: the current argument
    loaded,     \* main: what the YAML library made of the current file
    ran,        \* main: the components that ran on the current file
    events,     \* main: what happened to the current file
    anyBad,     \* main: some file so far was unreadable, raised or failed
    status,     \* main: the exit status, -1 while running
    documents,  \* extract_yaml_documents: the list returned
    current_doc,\* extract_yaml_documents: the lines of the block being read
    in_yaml,    \* extract_yaml_documents: inside a block
    lineno,     \* extract_yaml_documents: how many lines the loop has taken
    parses      \* extract_yaml_documents: the yaml.safe_load calls made so far

mainVars == <<exit_code, nargs, argi, filename, loaded, ran, events, anyBad, status>>

extractVars == <<documents, current_doc, in_yaml, lineno, parses>>

vars == <<pc, doc, result, content, verdict, mainVars, extractVars>>

(***************************************************************************)
(* Bounds                                                                  *)
(***************************************************************************)
MaxFields == 2
MaxGenerators == 2
MaxPaths == 2
MaxPatches == 2
MaxTextLen == 5
MaxFiles == 2
MaxFileLen == 4
MaxDocs == 2
MaxLines == 4

(***************************************************************************)
(* Python values                                                           *)
(***************************************************************************)
ABSENT == [t |-> "absent"]
NULL == [t |-> "null"]
Str(s) == [t |-> "str", s |-> s]
Map(vs) == [t |-> "map", vals |-> vs]
List(xs) == [t |-> "seq", items |-> xs]

SeqsUpTo(S, n) == UNION {[1..k -> S] : k \in 0..n}

\* `"k" in d` for the value stored under k
Has(v) == v.t # "absent"

\* `d.get("k") is None`
IsNone(v) == v.t \in {"absent", "null"}

\* `v == "..."` for a str literal
IsStr(v, s) == v.t = "str" /\ v.s = s

\* str.startswith / str.endswith on token sequences
startswith(s, prefix) ==
    /\ Len(s) >= Len(prefix)
    /\ SubSeq(s, 1, Len(prefix)) = prefix

endswith(s, suffix) ==
    /\ Len(s) >= Len(suffix)
    /\ SubSeq(s, Len(s) - Len(suffix) + 1, Len(s)) = suffix

\* Python truthiness of a value stored in a data / stringData mapping
Truthy(v) ==
    CASE v.t = "null" -> FALSE
      [] v.t = "str" -> v.s # ""
      [] v.t = "map" -> Len(v.vals) > 0
      [] v.t = "seq" -> Len(v.items) > 0
      [] OTHER -> FALSE

(***************************************************************************)
(* validate_sops_metadata (lines 109-125)                                  *)
(***************************************************************************)
\* variant: the test of mac is inverted
validate_sops_metadata_swapped(data) ==
    /\ data.sops.t = "map"
    /\ ~ ( \/ ~Has(data.sops.mac)
           \/ ~Has(data.sops.lastmodified)
           \/ ~IsNone(data.sops.mac)
           \/ IsNone(data.sops.lastmodified) )

\* variant: lastmodified is not looked at
validate_sops_metadata_no_lastmodified(data) ==
    /\ data.sops.t = "map"
    /\ ~ ( \/ ~Has(data.sops.mac)
           \/ IsNone(data.sops.mac) )

validate_sops_metadata(data) ==
    /\ data.sops.t = "map"
    /\ ~ ( \/ ~Has(data.sops.mac)
           \/ ~Has(data.sops.lastmodified)
           \/ IsNone(data.sops.mac)
           \/ IsNone(data.sops.lastmodified) )

(***************************************************************************)
(* check_secret, lines 84-99: has_data / has_string_data after the         *)
(* non-empty test                                                          *)
(***************************************************************************)
\* variant: all() in place of any()
has_value_all(v) ==
    IF v.t = "map"
    THEN /\ Len(v.vals) > 0
         /\ \A i \in 1..Len(v.vals) :
               ~IsNone(v.vals[i]) /\ ~IsStr(v.vals[i], "") /\ Truthy(v.vals[i])
    ELSE ~IsNone(v) /\ ~IsStr(v, "")

\* variant: a mapping counts as soon as it has a key
has_value_keys(v) ==
    IF v.t = "map"
    THEN Len(v.vals) > 0
    ELSE ~IsNone(v) /\ ~IsStr(v, "")

has_value(v) ==
    IF v.t = "map"
    THEN \E i \in 1..Len(v.vals) :
            ~IsNone(v.vals[i]) /\ ~IsStr(v.vals[i], "") /\ Truthy(v.vals[i])
    ELSE ~IsNone(v) /\ ~IsStr(v, "")

(***************************************************************************)
(* check_secret, lines 31-46: the secretGenerator loop.  TRUE when the     *)
(* loop ends without `return False`.                                       *)
(***************************************************************************)
ENC_YAML == <<".enc", ".yaml">>
SOPS_YAML == <<".sops", ".yaml">>

file_ok(f) == endswith(f, ENC_YAML) \/ endswith(f, SOPS_YAML)

\* variant: `if generator.get("literals")` in place of `"literals" in generator`
generator_ok_nonempty_literals(generator) ==
    /\ ~(Has(generator.literals) /\ Truthy(generator.literals))
    /\ Has(generator.files) =>
          \A j \in 1..Len(generator.files.items) : file_ok(generator.files.items[j])

generator_ok(generator) ==
    /\ ~Has(generator.literals)
    /\ Has(generator.files) =>
          \A j \in 1..Len(generator.files.items) : file_ok(generator.files.items[j])

secret_generator_ok(data) ==
    Has(data.secretGenerator) =>
        \A i \in 1..Len(data.secretGenerator.items) :
            generator_ok(data.secretGenerator.items[i])

(***************************************************************************)
(* yaml.safe_load of a patch text (line 53).  A text is carried with what  *)
(* the YAML library makes of it: YAMLERROR, or the loaded value.           *)
(***************************************************************************)
YAMLERROR == [t |-> "yamlerror"]
Text(y) == [t |-> "str", yaml |-> y]
safe_load(text) == text.yaml

(***************************************************************************)
(* check_secret (lines 8-106)                                              *)
(***************************************************************************)
\* lines 51-61: one entry of `patches` names a nested Secret to classify
\* variant: the kind of the nested document is not looked at
patch_secret_any_kind(patch) ==
    /\ patch.t = "map"
    /\ Has(patch.patch)
    /\ safe_load(patch.patch).t = "map"

patch_secret(patch) ==
    /\ patch.t = "map"
    /\ Has(patch.patch)
    /\ safe_load(patch.patch).t = "map"
    /\ IsStr(safe_load(patch.patch).kind, "Secret")

RECURSIVE check_secret(_)
check_secret(data) ==
    IF data.t # "map" THEN TRUE
    ELSE IF /\ IsStr(data.kind, "ksops")
            /\ startswith(IF Has(data.apiVersion) THEN data.apiVersion.s ELSE <<>>,
                          <<"viaduct.ai/">>)
    THEN TRUE
    ELSE IF IsStr(data.kind, "Kustomization")
    THEN /\ secret_generator_ok(data)
         /\ Has(data.patches) =>
               \A i \in 1..Len(data.patches.items) :
                   patch_secret(data.patches.items[i]) =>
                       check_secret(safe_load(data.patches.items[i].patch))
    ELSE IF Has(data.kind) /\ ~IsStr(data.kind, "Secret")
    THEN TRUE
    ELSE IF ~(Has(data.data) \/ Has(data.stringData))
    THEN IF IsStr(data.kind, "Secret") /\ Has(data.sops)
         THEN validate_sops_metadata(data)
         ELSE TRUE
    ELSE IF Has(data.sops)
    THEN validate_sops_metadata(data)
    ELSE ~(has_value(data.data) \/ has_value(data.stringData))

(***************************************************************************)
(* Text.  A text is a sequence of tokens: NL a line break, SP a blank, HASH*)
(* `#`, COLON `:`, "key" / "KEY" a sensitive word in lower / upper case,   *)
(* "{{" and "$(" template openers, "ENC[" the encrypted-value marker, "x"  *)
(* any other character, IGNORE_LINE and IGNORE_FILE the two marker         *)
(* comments (each starts with `#` and holds a colon).                      *)
(***************************************************************************)
NL == "\n"
SP == " "
HASH == "#"
COLON == ":"
IGNORE_LINE == "# sops-pre-commit: ignore-line"
IGNORE_FILE == "# sops-pre-commit: ignore-file"

\* the position of the first token of s in the set T, or 0
RECURSIVE IndexIn(_, _, _)
IndexIn(s, T, i) ==
    IF i > Len(s) THEN 0
    ELSE IF s[i] \in T THEN i
    ELSE IndexIn(s, T, i + 1)

\* str.splitlines()
RECURSIVE splitlines(_)
splitlines(s) ==
    IF s = <<>> THEN <<>>
    ELSE LET i == IndexIn(s, {NL}, 1) IN
         IF i = 0 THEN <<s>>
         ELSE <<SubSeq(s, 1, i - 1)>> \o splitlines(SubSeq(s, i + 1, Len(s)))

\* str.strip()
RECURSIVE lstrip(_)
lstrip(s) ==
    IF s # <<>> /\ Head(s) \in {SP, NL} THEN lstrip(Tail(s)) ELSE s

RECURSIVE rstrip(_)
rstrip(s) ==
    IF s # <<>> /\ s[Len(s)] \in {SP, NL} THEN rstrip(SubSeq(s, 1, Len(s) - 1)) ELSE s

strip(s) == rstrip(lstrip(s))

\* str.lower()
lower(s) == [i \in 1..Len(s) |-> IF s[i] = "KEY" THEN "key" ELSE s[i]]

\* `sub in s`
Contains(s, sub) ==
    \E i \in 1..(Len(s) - Len(sub) + 1) : SubSeq(s, i, i + Len(sub) - 1) = sub

\* line.startswith("#")
starts_with_hash(line) == line # <<>> /\ line[1] \in {HASH, IGNORE_LINE, IGNORE_FILE}

\* line.split(":", 1)[1] if ":" in line else "": a marker comment holds the
\* colon inside it, and its words after the colon stay in the value
after_colon(line) ==
    LET i == IndexIn(line, {COLON, IGNORE_LINE, IGNORE_FILE}, 1) IN
    IF i = 0 THEN <<>>
    ELSE (IF line[i] = COLON THEN <<>> ELSE <<"x">>) \o SubSeq(line, i + 1, Len(line))

(***************************************************************************)
(* check_template_content (lines 128-173)                                  *)
(***************************************************************************)
sensitive_keys ==
    { <<"password", COLON>>, <<"token", COLON>>, <<"secret", COLON>>,
      <<"key", COLON>>, <<"cert", COLON>>, <<"data", COLON>> }

openers == {"{{", "{%", "${", "$("}

\* lines 161-165: the value is skipped
value_skipped(value) ==
    \/ value = <<>>
    \/ Head(value) \in openers
    \/ Contains(value, <<"ENC[">>)

\* variant: the keys are looked for in the line as written, not in line.lower()
line_fails_case_sensitive(raw) ==
    LET line == strip(raw) IN
    IF line = <<>> \/ starts_with_hash(line) THEN FALSE
    ELSE IF \E key \in sensitive_keys : Contains(line, key)
    THEN IF Contains(line, <<IGNORE_LINE>>) THEN FALSE
         ELSE ~value_skipped(strip(after_colon(line)))
    ELSE FALSE

\* lines 145-171 for one line: TRUE when the line makes the scan return False
line_fails(raw) ==
    LET line == strip(raw) IN
    IF line = <<>> \/ starts_with_hash(line) THEN FALSE
    ELSE IF \E key \in sensitive_keys : Contains(lower(line), key)
    THEN IF Contains(line, <<IGNORE_LINE>>) THEN FALSE
         ELSE ~value_skipped(strip(after_colon(line)))
    ELSE FALSE

\* the for loop of line 144: return False at the first failing line
RECURSIVE scan_lines(_)
scan_lines(lines) ==
    IF lines = <<>> THEN TRUE
    ELSE IF line_fails(Head(lines)) THEN FALSE
    ELSE scan_lines(Tail(lines))

check_template_content(text) ==
    IF text = <<>> \/ strip(text) = <<>> THEN TRUE
    ELSE scan_lines(splitlines(text))

(***************************************************************************)
(* Documents                                                               *)
(***************************************************************************)
Vals == {NULL, Str(""), Str("v")}

\* the value under `data` or `stringData`: absent, a scalar, or a mapping
Blocks ==
    {ABSENT, NULL, Str(""), Str("v")} \cup {Map(vs) : vs \in SeqsUpTo(Vals, MaxFields)}

\* the value under `sops`
SopsMaps ==
    {[t |-> "map", mac |-> m, lastmodified |-> l] :
        m \in {ABSENT, NULL, Str("m")}, l \in {ABSENT, NULL, Str("t")}}

SopsValues == {ABSENT, NULL, Str("ENC")} \cup SopsMaps

Kinds ==
    {ABSENT, NULL, Str("Secret"), Str("ConfigMap"), Str("ksops"), Str("Kustomization")}

ApiVersions == {ABSENT, Str(<<"viaduct.ai/", "v1">>), Str(<<"v1">>)}

Doc(k, a, s, d, sd, g, p) ==
    [t |-> "map", kind |-> k, apiVersion |-> a, sops |-> s, data |-> d,
     stringData |-> sd, secretGenerator |-> g, patches |-> p]

NonMappings == {NULL, Str("text"), List(<<>>)}

\* file paths of a secretGenerator entry, as token sequences
Paths ==
    { <<"secret", ".yaml">>, <<"secret", ".enc", ".yaml">>, <<"secret", ".sops", ".yaml">> }

\* a secretGenerator entry: `literals` absent or present (even empty),
\* `files` absent or a list of at most n paths
Generators(n) ==
    {[t |-> "map", literals |-> l, files |-> f] :
        l \in {ABSENT, List(<<>>), List(<<Str("k=v")>>)},
        f \in {ABSENT} \cup {List(ps) : ps \in SeqsUpTo(Paths, n)}}

\* up to MaxGenerators entries of at most one path each, or one entry of up
\* to MaxPaths paths
GeneratorLists ==
    {ABSENT}
    \cup {List(gs) : gs \in SeqsUpTo(Generators(1), MaxGenerators)}
    \cup {List(<<g>>) : g \in Generators(MaxPaths)}

FewGeneratorLists ==
    { ABSENT,
      List(<<>>),
      List(<<[t |-> "map", literals |-> ABSENT,
              files |-> List(<< <<"secret", ".enc", ".yaml">> >>)]>>),
      List(<<[t |-> "map", literals |-> ABSENT,
              files |-> List(<< <<"secret", ".yaml">> >>)]>>) }

\* what the text of a `patch` key loads to
NestedBodies ==
    { [sops |-> ABSENT, data |-> Map(<<Str("v")>>)],
      [sops |-> ABSENT, data |-> Map(<<Str("")>>)],
      [sops |-> Str("ENC"), data |-> ABSENT],
      [sops |-> [t |-> "map", mac |-> Str("m"), lastmodified |-> Str("t")],
       data |-> Map(<<Str("v")>>)] }

NestedDocs ==
    {Doc(k, ABSENT, b.sops, b.data, ABSENT, ABSENT, ABSENT) :
        k \in {ABSENT, Str("Secret"), Str("ConfigMap")}, b \in NestedBodies}
    \cup
    {Doc(Str("Kustomization"), ABSENT, ABSENT, ABSENT, ABSENT,
         List(<<[t |-> "map", literals |-> List(<<>>), files |-> ABSENT]>>), ABSENT)}

\* an entry of `patches`: a path string, a mapping without `patch`, or a
\* mapping with a `patch` text
PatchEntries ==
    {Str("patch.yaml"), [t |-> "map", patch |-> ABSENT]}
    \cup {[t |-> "map", patch |-> Text(x)] :
            x \in {YAMLERROR, NULL, Str("text")} \cup NestedDocs}

PatchLists ==
    {ABSENT} \cup {List(ps) : ps \in SeqsUpTo(PatchEntries, MaxPatches)}

\* keys a Kustomization is not expected to carry
Extras ==
    { [sops |-> ABSENT, data |-> ABSENT, stringData |-> ABSENT],
      [sops |-> Str("ENC"), data |-> Map(<<Str("v")>>), stringData |-> Str("v")] }

NoDoc == [t |-> "none"]
NoText == <<>>
NoName == <<>>
NoLoad == [t |-> "none"]

(***************************************************************************)
(* Spec: check_secret applied to one document                              *)
(***************************************************************************)
IdleDoc == doc = NoDoc /\ result = TRUE
IdleTemplate == content = NoText /\ verdict = TRUE
IdleMain ==
    /\ exit_code = 0 /\ nargs = 0 /\ argi = 0
    /\ filename = NoName /\ loaded = NoLoad
    /\ ran = {} /\ events = {} /\ anyBad = FALSE /\ status = -1
IdleExtract ==
    /\ documents = <<>> /\ current_doc = <<>> /\ in_yaml = FALSE
    /\ lineno = 0 /\ parses = <<>>

Init ==
    /\ pc = "call"
    /\ \/ doc \in NonMappings
       \/ \E k \in Kinds, a \in ApiVersions, s \in SopsValues, d \in Blocks, sd \in Blocks :
             doc = Doc(k, a, s, d, sd, ABSENT, ABSENT)
    /\ result = TRUE
    /\ IdleTemplate
    /\ IdleMain
    /\ IdleExtract

Classify ==
    /\ pc = "call"
    /\ result' = check_secret(doc)
    /\ pc' = "ret"
    /\ UNCHANGED <<doc, content, verdict, mainVars, extractVars>>

Next == Classify

Spec == Init /\ [][Next]_vars

(***************************************************************************)
(* KustomizeSpec: check_secret applied to one Kustomization                *)
(***************************************************************************)
KustomizeInit ==
    /\ pc = "call"
    /\ \E e \in Extras, a \in ApiVersions :
          \/ \E g \in GeneratorLists :
                doc = Doc(Str("Kustomization"), a, e.sops, e.data, e.stringData, g, ABSENT)
          \/ \E g \in FewGeneratorLists, p \in PatchLists :
                doc = Doc(Str("Kustomization"), a, e.sops, e.data, e.stringData, g, p)
    /\ result = TRUE
    /\ IdleTemplate
    /\ IdleMain
    /\ IdleExtract

KustomizeSpec == KustomizeInit /\ [][Next]_vars

(***************************************************************************)
(* TemplateSpec: check_template_content applied to one text                *)
(***************************************************************************)
TemplateTokens ==
    {NL, SP, HASH, COLON, "key", "KEY", "{{", "$(", "ENC[", IGNORE_LINE, "x"}

TemplateInit ==
    /\ pc = "call"
    /\ \E n \in 0..MaxTextLen : content \in [1..n -> TemplateTokens]
    /\ verdict = TRUE
    /\ IdleDoc
    /\ IdleMain
    /\ IdleExtract

ScanTemplate ==
    /\ pc = "call"
    /\ verdict' = check_template_content(content)
    /\ pc' = "ret"
    /\ UNCHANGED <<doc, result, content, mainVars, extractVars>>

TemplateNext == ScanTemplate

TemplateSpec == TemplateInit /\ [][TemplateNext]_vars

(***************************************************************************)
(* main (lines 236-279).  A file is what the driver sees of it: its name,  *)
(* whether it can be read, its text as far as the ignore-file check and    *)
(* the template scanner look at it, and what yaml.safe_load_all and, after *)
(* a YAMLError, extract_yaml_documents make of the text.                   *)
(***************************************************************************)
\* line 255: filename.endswith((".j2", ".jsonnet"))
is_template(name) == endswith(name, <<".j2">>) \/ endswith(name, <<".jsonnet">>)

\* variant: [:4]
first_lines_four(text) ==
    SubSeq(splitlines(text), 1, IF Len(splitlines(text)) < 4 THEN Len(splitlines(text)) ELSE 4)

\* line 250: content.splitlines()[:3]
first_lines(text) ==
    SubSeq(splitlines(text), 1, IF Len(splitlines(text)) < 3 THEN Len(splitlines(text)) ELSE 3)

\* line 251
ignore_file(text) ==
    \E i \in 1..Len(first_lines(text)) : Contains(first_lines(text)[i], <<IGNORE_FILE>>)

\* `if doc` of line 270
truthy_doc(d) ==
    CASE d.t = "map" -> \E k \in {"kind", "apiVersion", "sops", "data", "stringData",
                                   "secretGenerator", "patches"} : Has(d[k])
      [] d.t = "str" -> d.s # ""
      [] d.t = "seq" -> Len(d.items) > 0
      [] OTHER -> FALSE

\* lines 269-272: TRUE when the loop breaks on a failing document
RECURSIVE some_doc_fails(_)
some_doc_fails(docs) ==
    IF docs = <<>> THEN FALSE
    ELSE IF truthy_doc(Head(docs)) /\ ~check_secret(Head(docs)) THEN TRUE
    ELSE some_doc_fails(Tail(docs))

\* lines 262-266: the documents of the file; RAISED when the YAML library
\* throws something that is no YAMLError
RAISED == [t |-> "raised"]
Loaded(ds) == [t |-> "docs", docs |-> ds]
Fallback(x) == [t |-> "yamlerror", extracted |-> x]

documents_of(y) ==
    IF y.t = "yamlerror" THEN y.extracted ELSE y

\* variant: the flag follows the last file
flag_after_reset(code, bad) == IF bad THEN 1 ELSE 0

\* lines 246, 257, 271, 276: exit_code after a file
flag_after(code, bad) == IF bad THEN 1 ELSE code

Names ==
    { <<"a", ".yaml">>, <<"a", ".yaml", ".j2">>, <<"a", ".jsonnet">>, <<"a", ".j2", ".txt">> }

FileTokens == {NL, IGNORE_FILE, "key", COLON}

DriverDocs ==
    { NULL,
      Doc(Str("ConfigMap"), ABSENT, ABSENT, Map(<<Str("v")>>), ABSENT, ABSENT, ABSENT),
      Doc(Str("Secret"), ABSENT, ABSENT, Map(<<Str("v")>>), ABSENT, ABSENT, ABSENT) }

DocLists == {Loaded(ds) : ds \in SeqsUpTo(DriverDocs, MaxDocs)}

Loads ==
    DocLists \cup {RAISED} \cup {Fallback(x) : x \in DocLists \cup {RAISED}}

BadEvents == {"unreadable", "raised", "failed"}

MainInit ==
    /\ pc = "for"
    /\ nargs \in 0..MaxFiles
    /\ argi = 0
    /\ exit_code = 0
    /\ filename = NoName /\ loaded = NoLoad
    /\ ran = {} /\ events = {} /\ anyBad = FALSE /\ status = -1
    /\ IdleDoc
    /\ IdleTemplate
    /\ IdleExtract

\* line 240: the loop takes the next argument
NextFile ==
    /\ pc = "for"
    /\ argi < nargs
    /\ \E name \in Names : filename' = name
    /\ argi' = argi + 1
    /\ content' = NoText /\ loaded' = NoLoad
    /\ ran' = {} /\ events' = {}
    /\ pc' = "open"
    /\ UNCHANGED <<doc, result, verdict, exit_code, nargs, anyBad, status>>
    /\ UNCHANGED extractVars

\* lines 241-247: the file cannot be read
OpenFails ==
    /\ pc = "open"
    /\ exit_code' = flag_after(exit_code, TRUE)
    /\ events' = {"unreadable"}
    /\ anyBad' = TRUE
    /\ pc' = "for"
    /\ UNCHANGED <<doc, result, content, verdict, nargs, argi, filename, loaded, ran, status>>
    /\ UNCHANGED extractVars

\* lines 249-252: the file carries the ignore-file marker
SkipIgnored ==
    /\ pc = "open"
    /\ \E n \in 0..MaxFileLen : content' \in [1..n -> FileTokens]
    /\ ignore_file(content')
    /\ events' = {"skipped"}
    /\ pc' = "for"
    /\ UNCHANGED <<doc, result, verdict, exit_code, nargs, argi, filename, loaded, ran,
                   anyBad, status>>
    /\ UNCHANGED extractVars

\* lines 254-258: a template file the scanner fails
TemplateFails ==
    /\ pc = "open"
    /\ \E n \in 0..MaxFileLen : content' \in [1..n -> FileTokens]
    /\ ~ignore_file(content')
    /\ is_template(filename)
    /\ ~check_template_content(content')
    /\ exit_code' = flag_after(exit_code, TRUE)
    /\ ran' = {"scanner"}
    /\ events' = {"failed"}
    /\ anyBad' = TRUE
    /\ pc' = "for"
    /\ UNCHANGED <<doc, result, verdict, nargs, argi, filename, loaded, status>>
    /\ UNCHANGED extractVars

\* lines 254-258: any other file goes on to line 260
ReadOk ==
    /\ pc = "open"
    /\ \E n \in 0..MaxFileLen : content' \in [1..n -> FileTokens]
    /\ ~ignore_file(content')
    /\ is_template(filename) => check_template_content(content')
    /\ ran' = IF is_template(filename) THEN {"scanner"} ELSE {}
    /\ pc' = "parse"
    /\ UNCHANGED <<doc, result, verdict, exit_code, nargs, argi, filename, loaded,
                   events, anyBad, status>>
    /\ UNCHANGED extractVars

\* lines 260-277: parse, fall back to extraction on a YAMLError, classify
\* the documents.  The text is not read again and is dropped.
Parse ==
    /\ pc = "parse"
    /\ \E y \in Loads :
          LET ds == documents_of(y)
              raised == ds.t = "raised"
              failed == ~raised /\ some_doc_fails(ds.docs)
          IN /\ loaded' = y
             /\ ran' = ran \cup {"parser"}
                           \cup (IF y.t = "yamlerror" THEN {"extractor"} ELSE {})
                           \cup (IF ~raised /\ \E i \in 1..Len(ds.docs) : truthy_doc(ds.docs[i])
                                 THEN {"classifier"} ELSE {})
             /\ events' = (IF y.t = "yamlerror" THEN {"fallback"} ELSE {})
                          \cup (IF raised THEN {"raised"} ELSE {})
                          \cup (IF failed THEN {"failed"} ELSE {})
             /\ exit_code' = flag_after(exit_code, raised \/ failed)
             /\ anyBad' = (anyBad \/ raised \/ failed)
    /\ content' = NoText
    /\ pc' = "for"
    /\ UNCHANGED <<doc, result, verdict, nargs, argi, filename, status>>
    /\ UNCHANGED extractVars

\* line 279: sys.exit(exit_code)
Exit ==
    /\ pc = "for"
    /\ argi = nargs
    /\ status' = exit_code
    /\ pc' = "done"
    /\ UNCHANGED <<doc, result, content, verdict, exit_code, nargs, argi, filename,
                   loaded, ran, events, anyBad>>
    /\ UNCHANGED extractVars

MainNext ==
    \/ NextFile
    \/ OpenFails
    \/ SkipIgnored
    \/ TemplateFails
    \/ ReadOk
    \/ Parse
    \/ Exit

\* the loop body and the exit are straight-line code: a step that can be
\* taken is taken
MainSpec == MainInit /\ [][MainNext]_vars /\ WF_vars(MainNext)

(***************************************************************************)
(* extract_yaml_documents (lines 176-233).  The text is a token sequence   *)
(* as above; "---", "apiVersion:", "kind:", "metadata:", "DEBUG:" and      *)
(* "Command:" are tokens of their own.  What yaml.safe_load makes of a     *)
(* block is an input of the step that calls it.                            *)
(***************************************************************************)
\* "\n".join(current_doc)
RECURSIVE join(_)
join(ls) ==
    IF ls = <<>> THEN <<>>
    ELSE IF Len(ls) = 1 THEN ls[1]
    ELSE ls[1] \o <<NL>> \o join(Tail(ls))

\* line 192
is_start(line) ==
    \/ strip(line) = <<"---">>
    \/ startswith(strip(line), <<"apiVersion:">>)

\* variant: a comment line does not end a block
is_end_no_comment(line) ==
    \/ strip(line) = <<>>
    \/ startswith(strip(line), <<"DEBUG:">>)
    \/ startswith(strip(line), <<"Command:">>)

\* line 208
is_end(line) ==
    \/ strip(line) = <<>>
    \/ startswith(strip(line), <<"DEBUG:">>)
    \/ startswith(strip(line), <<"Command:">>)
    \/ starts_with_hash(strip(line))

\* line 220
is_head(line) ==
    \/ startswith(strip(line), <<"apiVersion:">>)
    \/ startswith(strip(line), <<"kind:">>)
    \/ startswith(strip(line), <<"metadata:">>)

\* a non-empty value loaded from a text; it carries the text, so that the
\* documents of two blocks differ when the blocks do
Fragment(text) == Map(<<Str(text)>>)

\* yaml.safe_load of a block: a YAMLError, another exception, None, an empty
\* mapping, or a non-empty value
block_loads(text) == {YAMLERROR, RAISED, NULL, Map(<<>>), Fragment(text)}

\* lines 194-199, 209-214, 226-231: `documents` after the try statement,
\* y being what yaml.safe_load did
appended(docs, y) ==
    IF y = YAMLERROR \/ y = RAISED THEN docs
    ELSE IF Truthy(y) THEN Append(docs, y)
    ELSE docs

\* one call of yaml.safe_load: the lines first..last of the text, joined,
\* and what the library did
Call(first, last, text, y) == [first |-> first, last |-> last, text |-> text, yaml |-> y]

\* the call made when the loop stands after line `lineno`
flush_call(y) ==
    Call(lineno - Len(current_doc) + 1, lineno, join(current_doc), y)

\* the lines of a text: blank, `---`, `apiVersion:`, `kind:`, comment and
\* other lines
CoreShapes ==
    { <<SP>>, <<SP, "---">>, <<"apiVersion:", "x">>, <<SP, "kind:", "x">>,
      <<HASH, "x">>, <<"x">> }

\* and: `metadata:`, `DEBUG:`, `Command:`, and a line that goes on after `---`
ExtractShapes ==
    CoreShapes \cup { <<"metadata:">>, <<"DEBUG:">>, <<"Command:", "x">>, <<"---", "x">> }

\* texts of up to MaxLines lines, the longest ones of core lines only
ExtractInit ==
    /\ pc = "scan"
    /\ \/ \E ls \in SeqsUpTo(CoreShapes, MaxLines) : content = join(ls)
       \/ \E ls \in SeqsUpTo(ExtractShapes, MaxLines - 1) : content = join(ls)
    /\ verdict = TRUE
    /\ IdleDoc
    /\ IdleMain
    /\ IdleExtract

\* line 190: the line the loop takes next
line == splitlines(content)[lineno + 1]

more_lines == pc = "scan" /\ lineno < Len(splitlines(content))

\* lines 192-203, with no block accumulating: the line starts a block
StartBlock ==
    /\ more_lines
    /\ is_start(line)
    /\ ~(current_doc # <<>> /\ in_yaml)
    /\ current_doc' = <<line>>
    /\ in_yaml' = TRUE
    /\ lineno' = lineno + 1
    /\ UNCHANGED <<pc, doc, result, content, verdict, mainVars, documents, parses>>

\* lines 192-203, with a block accumulating: the block is parsed, and the
\* line starts the next one
StartNextBlock ==
    /\ more_lines
    /\ is_start(line)
    /\ current_doc # <<>> /\ in_yaml
    /\ \E y \in block_loads(join(current_doc)) :
          /\ parses' = Append(parses, flush_call(y))
          /\ documents' = appended(documents, y)
          /\ IF y = RAISED
             THEN pc' = "raised" /\ UNCHANGED <<current_doc, in_yaml, lineno>>
             ELSE /\ current_doc' = <<line>>
                  /\ in_yaml' = TRUE
                  /\ lineno' = lineno + 1
                  /\ pc' = pc
    /\ UNCHANGED <<doc, result, content, verdict, mainVars>>

\* lines 206-216: a blank or marker line ends the block, which is parsed
EndBlock ==
    /\ more_lines
    /\ ~is_start(line)
    /\ in_yaml
    /\ is_end(line)
    /\ \E y \in block_loads(join(current_doc)) :
          /\ parses' = Append(parses, flush_call(y))
          /\ documents' = appended(documents, y)
          /\ IF y = RAISED
             THEN pc' = "raised" /\ UNCHANGED <<current_doc, in_yaml, lineno>>
             ELSE /\ current_doc' = <<>>
                  /\ in_yaml' = FALSE
                  /\ lineno' = lineno + 1
                  /\ pc' = pc
    /\ UNCHANGED <<doc, result, content, verdict, mainVars>>

\* lines 217-218: the line joins the block
Accumulate ==
    /\ more_lines
    /\ ~is_start(line)
    /\ in_yaml
    /\ ~is_end(line)
    /\ current_doc' = Append(current_doc, line)
    /\ lineno' = lineno + 1
    /\ UNCHANGED <<pc, doc, result, content, verdict, mainVars, documents, in_yaml, parses>>

\* lines 220-222: outside a block, a descriptor line begins one
BeginFragment ==
    /\ more_lines
    /\ ~is_start(line)
    /\ ~in_yaml
    /\ is_head(line)
    /\ in_yaml' = TRUE
    /\ current_doc' = Append(current_doc, line)
    /\ lineno' = lineno + 1
    /\ UNCHANGED <<pc, doc, result, content, verdict, mainVars, documents, parses>>

\* lines 206, 220: outside a block, any other line is passed over
SkipLine ==
    /\ more_lines
    /\ ~is_start(line)
    /\ ~in_yaml
    /\ ~is_head(line)
    /\ lineno' = lineno + 1
    /\ UNCHANGED <<pc, doc, result, content, verdict, mainVars, documents, current_doc,
                   in_yaml, parses>>

\* lines 225-233, with a block accumulating: the last block is parsed
ReturnLast ==
    /\ pc = "scan"
    /\ lineno = Len(splitlines(content))
    /\ current_doc # <<>> /\ in_yaml
    /\ \E y \in block_loads(join(current_doc)) :
          /\ parses' = Append(parses, flush_call(y))
          /\ documents' = appended(documents, y)
          /\ pc' = IF y = RAISED THEN "raised" ELSE "ret"
    /\ UNCHANGED <<doc, result, content, verdict, mainVars, current_doc, in_yaml, lineno>>

\* lines 225, 233, with no block accumulating
Return ==
    /\ pc = "scan"
    /\ lineno = Len(splitlines(content))
    /\ ~(current_doc # <<>> /\ in_yaml)
    /\ pc' = "ret"
    /\ UNCHANGED <<doc, result, content, verdict, mainVars, extractVars>>

ExtractNext ==
    \/ StartBlock
    \/ StartNextBlock
    \/ EndBlock
    \/ Accumulate
    \/ BeginFragment
    \/ SkipLine
    \/ ReturnLast
    \/ Return

ExtractSpec == ExtractInit /\ [][ExtractNext]_vars

(***************************************************************************)
(* Claims about check_secret on one document                               *)
(***************************************************************************)
Returned == pc = "ret" /\ doc.t = "map"

\* a mapping that contains at least one non-empty string value
HasNonEmptyString(v) ==
    /\ v.t = "map"
    /\ \E i \in 1..Len(v.vals) : v.vals[i].t = "str" /\ v.vals[i].s # ""

\* a structurally complete `sops` value: a mapping with non-null mac and lastmodified
SopsComplete(v) ==
    /\ v.t = "map"
    /\ v.mac.t \notin {"absent", "null"}
    /\ v.lastmodified.t \notin {"absent", "null"}

\* C1: a Secret with no sops key whose data or stringData mapping holds a
\* non-empty string value is classified fail, whatever its other keys are.
C1_UnencryptedSecretFails ==
    ( /\ Returned
      /\ IsStr(doc.kind, "Secret")
      /\ ~Has(doc.sops)
      /\ HasNonEmptyString(doc.data) \/ HasNonEmptyString(doc.stringData) )
    => result = FALSE

C1_Witness ==
    /\ Returned
    /\ IsStr(doc.kind, "Secret")
    /\ ~Has(doc.sops)
    /\ doc.data = Map(<<Str(""), Str("v")>>)
    /\ ~Has(doc.stringData)
    /\ result = FALSE

\* C2: a Secret whose sops value is a mapping with non-null mac and non-null
\* lastmodified is classified pass, whatever data and stringData contain.
C2_EncryptedSecretPasses ==
    ( /\ Returned
      /\ IsStr(doc.kind, "Secret")
      /\ SopsComplete(doc.sops) )
    => result = TRUE

C2_Witness ==
    /\ Returned
    /\ IsStr(doc.kind, "Secret")
    /\ SopsComplete(doc.sops)
    /\ HasNonEmptyString(doc.data)
    /\ doc.stringData = Str("v")
    /\ result = TRUE

\* the documents whose sops key check_secret looks at: a Secret, or a
\* document with no kind key that has a data or stringData key
SopsIsValidated(d) ==
    \/ IsStr(d.kind, "Secret")
    \/ ~Has(d.kind) /\ (Has(d.data) \/ Has(d.stringData))

\* C9 as stated: a mapping document with a sops key passes only if the sops
\* value is structurally complete, for every value of kind.
C9_Original ==
    (Returned /\ Has(doc.sops) /\ result = TRUE) => SopsComplete(doc.sops)

\* C9 as amended: a Secret, or a document with no kind key that has a data or
\* stringData key, that has a sops key passes only if the sops value is
\* structurally complete.
C9_SopsMustBeComplete ==
    (Returned /\ Has(doc.sops) /\ SopsIsValidated(doc) /\ result = TRUE)
    => SopsComplete(doc.sops)

C9_Witness ==
    /\ Returned
    /\ IsStr(doc.kind, "Secret")
    /\ doc.sops.t = "map"
    /\ doc.sops.mac = Str("m")
    /\ doc.sops.lastmodified = NULL
    /\ ~Has(doc.data) /\ ~Has(doc.stringData)
    /\ result = FALSE

\* a data / stringData block whose values are all empty or null
AllEmpty(v) ==
    /\ Has(v)
    /\ IF v.t = "map"
       THEN \A i \in 1..Len(v.vals) : v.vals[i] \in {NULL, Str("")}
       ELSE v \in {NULL, Str("")}

BlockKeys == {"data", "stringData"}

\* the all-empty blocks of d, and d with the keys ks removed
EmptyBlocks(d) ==
    {k \in BlockKeys : AllEmpty(IF k = "data" THEN d.data ELSE d.stringData)}

Without(d, ks) ==
    [d EXCEPT !.data = IF "data" \in ks THEN ABSENT ELSE @,
              !.stringData = IF "stringData" \in ks THEN ABSENT ELSE @]

Removals(d) == SUBSET EmptyBlocks(d) \ {{}}

\* C10 as stated: removing all-empty data / stringData blocks never changes
\* the verdict, for every combination of kind and sops.
C10_Original ==
    Returned => \A ks \in Removals(doc) : result = check_secret(Without(doc, ks))

\* the one case where the removal matters: no kind key, an incomplete sops
\* value, and no data / stringData key left after the removal
UnkindedBadSops(d, ks) ==
    /\ ~Has(d.kind)
    /\ Has(d.sops)
    /\ ~SopsComplete(d.sops)
    /\ ~Has(Without(d, ks).data)
    /\ ~Has(Without(d, ks).stringData)

\* C10 as amended: removing all-empty blocks keeps the verdict, except for a
\* document with no kind key and a structurally incomplete sops value, which
\* fails while a block is present and passes once none is left.
C10_EmptyBlockIsAbsent ==
    Returned =>
        \A ks \in Removals(doc) :
            IF UnkindedBadSops(doc, ks)
            THEN result = FALSE /\ check_secret(Without(doc, ks)) = TRUE
            ELSE result = check_secret(Without(doc, ks))

C10_Witness ==
    /\ Returned
    /\ IsStr(doc.kind, "Secret")
    /\ ~Has(doc.sops)
    /\ doc.data = Map(<<NULL, Str("")>>)
    /\ doc.stringData = Str("")
    /\ Removals(doc) = SUBSET BlockKeys \ {{}}
    /\ result = TRUE

(***************************************************************************)
(* Claims about check_secret on a Kustomization                            *)
(***************************************************************************)
IsKustomization == Returned /\ IsStr(doc.kind, "Kustomization")

\* a path that ends in neither `.enc.yaml` nor `.sops.yaml`
PlainPath(p) == ~endswith(p, <<".enc", ".yaml">>) /\ ~endswith(p, <<".sops", ".yaml">>)

\* some secretGenerator entry has a literals key, or a files list with a plain path
BadGenerator(d) ==
    /\ Has(d.secretGenerator)
    /\ \E i \in 1..Len(d.secretGenerator.items) :
          LET g == d.secretGenerator.items[i] IN
          \/ Has(g.literals)
          \/ /\ Has(g.files)
             /\ \E j \in 1..Len(g.files.items) : PlainPath(g.files.items[j])

\* C6: a Kustomization with no patches key fails exactly when some
\* secretGenerator entry has a literals key (even an empty one) or a files
\* list with a path of neither encrypted suffix; data, stringData and sops
\* keys on the Kustomization do not change the verdict.
C6_GeneratorVerdict ==
    (IsKustomization /\ ~Has(doc.patches)) => (result = FALSE <=> BadGenerator(doc))

C6_Witness ==
    /\ IsKustomization
    /\ ~Has(doc.patches)
    /\ Has(doc.sops) /\ Has(doc.data)
    /\ doc.secretGenerator =
          List(<< [t |-> "map", literals |-> ABSENT,
                   files |-> List(<< <<"secret", ".sops", ".yaml">> >>)],
                  [t |-> "map", literals |-> List(<<>>), files |-> ABSENT] >>)
    /\ result = FALSE

\* some patches entry is a mapping whose patch text loads to a mapping of
\* kind Secret that check_secret fails
BadPatch(d) ==
    /\ Has(d.patches)
    /\ \E i \in 1..Len(d.patches.items) :
          LET p == d.patches.items[i] IN
          /\ p.t = "map"
          /\ p.patch.t # "absent"
          /\ p.patch.yaml.t = "map"
          /\ p.patch.yaml.kind = Str("Secret")
          /\ check_secret(p.patch.yaml) = FALSE

\* C7: a Kustomization whose secretGenerator checks all pass fails exactly
\* when some patches entry embeds a Secret that check_secret fails; a patch
\* that does not parse, is no mapping or is no Secret never causes failure.
C7_PatchVerdict ==
    (IsKustomization /\ ~BadGenerator(doc)) => (result = FALSE <=> BadPatch(doc))

C7_Witness ==
    /\ IsKustomization
    /\ ~BadGenerator(doc)
    /\ Has(doc.patches)
    /\ Len(doc.patches.items) = 2
    /\ doc.patches.items[1] = [t |-> "map", patch |-> Text(YAMLERROR)]
    /\ doc.patches.items[2].t = "map"
    /\ doc.patches.items[2].patch =
          Text(Doc(Str("Secret"), ABSENT, ABSENT, Map(<<Str("v")>>), ABSENT, ABSENT, ABSENT))
    /\ result = FALSE

(***************************************************************************)
(* Claims about check_template_content                                     *)
(***************************************************************************)
\* s without its leading and trailing blanks
Trimmed(s) ==
    IF \A i \in 1..Len(s) : s[i] = SP THEN <<>>
    ELSE LET a == CHOOSE i \in 1..Len(s) : s[i] # SP /\ \A j \in 1..(i - 1) : s[j] = SP
             b == CHOOSE i \in 1..Len(s) : s[i] # SP /\ \A j \in (i + 1)..Len(s) : s[j] = SP
         IN SubSeq(s, a, b)

\* the trimmed text after the first colon of a trimmed line
ValueOf(l) ==
    LET colons == {i \in 1..Len(l) : l[i] \in {COLON, IGNORE_FILE, IGNORE_LINE}}
        c == CHOOSE i \in colons : \A j \in colons : i <= j
    IN Trimmed((IF l[c] = COLON THEN <<>> ELSE <<"x">>) \o SubSeq(l, c + 1, Len(l)))

\* an offending line, as the claim words it
Offending(raw) ==
    LET l == Trimmed(raw) IN
    /\ l # <<>>
    /\ l[1] \notin {HASH, IGNORE_LINE, IGNORE_FILE}
    /\ \E i \in 1..(Len(l) - 1) : l[i] \in {"key", "KEY"} /\ l[i + 1] = COLON
    /\ \A i \in 1..Len(l) : l[i] # IGNORE_LINE
    /\ ValueOf(l) # <<>>
    /\ ValueOf(l)[1] \notin {"{{", "{%", "${", "$("}
    /\ \A i \in 1..Len(ValueOf(l)) : ValueOf(l)[i] # "ENC["

\* C8: check_template_content returns fail exactly when the text has an
\* offending line; empty and all-whitespace text passes.
C8_TemplateVerdict ==
    pc = "ret" =>
        ( verdict = FALSE <=>
            \E k \in 1..Len(splitlines(content)) : Offending(splitlines(content)[k]) )

C8_Witness ==
    /\ pc = "ret"
    /\ content = <<SP, "KEY", COLON, SP, "x">>
    /\ verdict = FALSE

(***************************************************************************)
(* Claims about main                                                       *)
(***************************************************************************)
\* C3: main ends, and exits 1 exactly when some file could not be read,
\* raised an unexpected error or got a failing verdict, and 0 otherwise; the
\* flag once set is never reset, and a fallback to extraction alone does not
\* set it.
C3_ExitStatus ==
    /\ <>(pc = "done")
    /\ [](pc = "done" =>
            /\ argi = nargs
            /\ status \in {0, 1}
            /\ status = 1 <=> anyBad)
    /\ [][exit_code = 1 => exit_code' = 1]_vars
    /\ [][("fallback" \in events' /\ events' \cap BadEvents = {}) => exit_code' = exit_code]_vars

C3_Witness ==
    /\ pc = "done"
    /\ nargs = 2
    /\ anyBad
    /\ events = {"fallback"}
    /\ loaded.t = "yamlerror"
    /\ status = 1

\* C4 as stated: a file with a template suffix is given to the template
\* scanner and to nothing else.
C4_TemplateExclusive ==
    (filename # NoName /\ is_template(filename)) => ran \subseteq {"scanner"}

\* the ignore-file marker stands on one of the first three lines
MarkerEarly(text) ==
    \E k \in 1..3 :
        /\ k <= Len(splitlines(text))
        /\ \E i \in 1..Len(splitlines(text)[k]) : splitlines(text)[k][i] = IGNORE_FILE

\* a step of main that has read the text of the current file
ReadsText == pc = "open" /\ events' # {"unreadable"}

\* C5: a readable file with the ignore-file marker on one of its first three
\* lines is skipped: nothing runs on it and the failure flag is unchanged;
\* a marker on line four or later does not skip the file.
C5_IgnoredFileSkipped ==
    [][ /\ (ReadsText /\ MarkerEarly(content')) =>
              /\ pc' = "for"
              /\ ran' = {}
              /\ exit_code' = exit_code
              /\ anyBad' = anyBad
        /\ (ReadsText /\ ~MarkerEarly(content')) =>
              \/ pc' = "parse"
              \/ ran' = {"scanner"} /\ exit_code' = 1 ]_vars

C5_Witness ==
    /\ pc = "for"
    /\ events = {"skipped"}
    /\ is_template(filename)
    /\ content = <<"key", COLON, IGNORE_FILE>>
    /\ ran = {}
    /\ argi = 2
    /\ exit_code = 1

(***************************************************************************)
(* Claims about extract_yaml_documents                                     *)
(***************************************************************************)
\* the trimmed line is exactly the separator
Separator(l) == Trimmed(l) = <<"---">>

\* the trimmed line starts with one of the words
StartsWith(l, words) == Trimmed(l) # <<>> /\ Trimmed(l)[1] \in words

\* a `---` or `apiVersion:` line
StartsBlock(l) == Separator(l) \/ StartsWith(l, {"apiVersion:"})

\* a line that sets a scan going, or starts a block
OpensBlock(l) == StartsBlock(l) \/ StartsWith(l, {"kind:", "metadata:"})

\* a blank line, or a `DEBUG:`, `Command:` or `#` line
EndsBlock(l) ==
    \/ Trimmed(l) = <<>>
    \/ StartsWith(l, {"DEBUG:", "Command:", HASH, IGNORE_LINE, IGNORE_FILE})

\* line i of the lines L is part of a block: some line up to i opens one, and
\* no line after that one up to i ends it
Accumulating(L, i) ==
    \E j \in 1..i :
        /\ OpensBlock(L[j])
        /\ \A k \in (j + 1)..i : ~EndsBlock(L[k])

\* the candidate blocks of the lines L, as <<first line, last line>>: a
\* longest run of accumulated lines with no `---` / `apiVersion:` line after
\* its first
CandidateBlocks(L) ==
    LET acc == {i \in 1..Len(L) : Accumulating(L, i)}
        starts == {i \in 1..Len(L) : StartsBlock(L[i])}
    IN { b \in (1..Len(L)) \X (1..Len(L)) :
           /\ b[1] <= b[2]
           /\ \A k \in b[1]..b[2] : k \in acc
           /\ \A k \in (b[1] + 1)..b[2] : k \notin starts
           /\ \/ b[1] = 1
              \/ (b[1] - 1) \notin acc
              \/ b[1] \in starts
           /\ \/ b[2] = Len(L)
              \/ (b[2] + 1) \notin acc
              \/ (b[2] + 1) \in starts }

\* the three flush points of a block that ends at line b of the lines L
EndedByStart(L, b) == b < Len(L) /\ StartsBlock(L[b + 1])
EndedByMarker(L, b) == b < Len(L) /\ EndsBlock(L[b + 1])
EndedByInput(L, b) == b = Len(L)

\* the parser was called once for each candidate block, in the order of the
\* text, on the lines of the block joined by line breaks
OneParsePerBlock ==
    LET L == splitlines(content)
        blocks == CandidateBlocks(L)
    IN /\ Len(parses) = Cardinality(blocks)
       /\ \A i \in 1..Len(parses) :
             /\ <<parses[i].first, parses[i].last>> \in blocks
             /\ parses[i].text = join(SubSeq(L, parses[i].first, parses[i].last))
       /\ \A i \in 1..(Len(parses) - 1) : parses[i].last < parses[i + 1].first

ParsedOk(c) == c.yaml # YAMLERROR /\ c.yaml # RAISED

ParsedNonEmpty(c) == ParsedOk(c) /\ c.yaml # NULL /\ c.yaml # Map(<<>>)

ValuesOf(cs) == [i \in 1..Len(cs) |-> cs[i].yaml]

NoOpeningLine ==
    LET L == splitlines(content) IN \A i \in 1..Len(L) : ~OpensBlock(L[i])

\* C11 as stated: when extract_yaml_documents returns, the parser was called
\* once per candidate block, in input order, and the list returned holds, in
\* that order, the value of every call that parsed successfully and nothing
\* else; a text with no `---`, `apiVersion:`, `kind:` or `metadata:` line gives
\* the empty list.
C11_Original ==
    pc = "ret" =>
        /\ OneParsePerBlock
        /\ documents = ValuesOf(SelectSeq(parses, ParsedOk))
        /\ NoOpeningLine => documents = <<>>

\* C11 as amended: when extract_yaml_documents returns, the parser was called
\* once per candidate block, in input order, at each of the three flush
\* points, and the list returned holds, in that order, the value of every call
\* that parsed successfully to a non-empty value and nothing else: a block
\* that fails to parse, or parses to None or to an empty mapping, adds
\* nothing.  A text with no `---`, `apiVersion:`, `kind:` or `metadata:` line
\* gives the empty list.
C11_ExtractedDocuments ==
    pc = "ret" =>
        /\ OneParsePerBlock
        /\ documents = ValuesOf(SelectSeq(parses, ParsedNonEmpty))
        /\ NoOpeningLine => documents = <<>>

\* the scan returned two documents in order after flushing at a start line,
\* at a marker line and at the end of input, with one block failing to parse
C11_Witness ==
    /\ pc = "ret"
    /\ Len(parses) = 3
    /\ Len(documents) = 2
    /\ documents[1] # documents[2]
    /\ \E i \in 1..3 : parses[i].yaml = YAMLERROR
    /\ \E i \in 1..3 : EndedByStart(splitlines(content), parses[i].last)
    /\ \E i \in 1..3 : EndedByMarker(splitlines(content), parses[i].last)
    /\ \E i \in 1..3 : EndedByInput(splitlines(content), parses[i].last)

====
